---- MODULE Spec2Model ----
(***************************************************************************)
(* Model of learning.py: the orchestration of an LSTM sequence encoder and *)
(* a feed-forward predictor (DNN) over per-author revision data.           *)
(*                                                                         *)
(* Conventions                                                             *)
(*  - A Python value that may be None is a sequence of length at most one: *)
(*    None is << >> and the number n is <<n>>.                             *)
(*  - Labels are real numbers in the source; the model stores them in      *)
(*    quarters (-1 is -4, 0 is 0, 0.5 is 2, 0.75 is 3, 1 is 4), so that    *)
(*    (yt + 1) / 2 stays an integer on every label the program produces.   *)
(*  - The LSTM and the DNN are opaque collaborators: their state is the    *)
(*    number of forward and backward calls they have received, and a       *)
(*    vector they return is the sequence of its component names.           *)
(***************************************************************************)
EXTENDS Integers, Sequences, FiniteSets, TLC

\* ---------------------------------------------------------------- bounds
\* Longest item list handed to any function, and most training iterations.
MaxItems == 2
MaxN == 2
\* Longest list given to _rebalance_data alone, longest history matrix given
\* to _expand_to_all alone.
MaxSample == 4
MaxHist == 2

\* ------------------------------------------------------ program constants
M == 12
FyWidth == 12
ShuffleRounds == 5

\* ------------------------------------------------------- optional values
None == << >>
Some(n) == <<n>>
IsNone(v) == v = None
Val(v) == v[1]

\* Python 2 orders None below every number.
PyLt(v, n) == IF IsNone(v) THEN TRUE ELSE Val(v) < n
PyGt(v, n) == IF IsNone(v) THEN FALSE ELSE Val(v) > n

\* Variant: only an absent target counts as missing (`if yt is None`).
Falsy_NoneOnly(yt) == IsNone(yt)

\* `not yt`: None and zero are falsy.
Falsy(yt) == IF IsNone(yt) THEN TRUE ELSE Val(yt) = 0

\* yt = 1.0 * (yt + 1.0) / 2.0, in quarters; the caller guarantees a number.
Normalize(yt) == Some((Val(yt) + 4) \div 2)

\* Labels of the data model: -1, 0, +1 or absent.
RawLabels == {Some(0 - 4), Some(0), Some(4), None}
NumLabels == {Some(0 - 4), Some(0), Some(4)}

\* ------------------------------------------------------------- sequences
RECURSIVE Count(_, _)
Count(s, x) ==
    IF s = << >> THEN 0
    ELSE (IF Head(s) = x THEN 1 ELSE 0) + Count(Tail(s), x)

Range(s) == {s[i] : i \in DOMAIN s}

RECURSIVE Arrangements(_, _)
\* The sequences of n distinct elements of S.
Arrangements(S, n) ==
    IF n = 0 THEN {<< >>}
    ELSE UNION {{<<x>> \o r : r \in Arrangements(S \ {x}, n - 1)} : x \in S}

\* The ways to pick n distinct positions, in order, of a list of length len.
Injections(n, len) == Arrangements(1..len, n)

\* random.shuffle / np.random.shuffle: every permutation of s.
Shuffles(s) == {[i \in 1..Len(s) |-> s[p[i]]] : p \in Injections(Len(s), Len(s))}

RECURSIVE ShuffleTimes(_, _)
ShuffleTimes(S, n) ==
    IF n = 0 THEN S
    ELSE ShuffleTimes(UNION {Shuffles(s) : s \in S}, n - 1)

\* Variant: n draws with replacement (random.choice, n times).
RandomSample_WithReplacement(population, n) ==
    {[i \in 1..n |-> population[p[i]]] : p \in [1..n -> 1..Len(population)]}

\* random.sample(population, n): n distinct positions, in any order.
RandomSample(population, n) ==
    {[i \in 1..n |-> population[p[i]]] : p \in Injections(n, Len(population))}

\* ------------------------------------------------------------------ data
\* A history row: row[:-2] are its features, row[-1] its label.
Row(a, i, lab) == [feat |-> <<a, i>>, last |-> lab]

\* (author, (x_mat, fy, yt)); fy names the current revision's features.
Item(a, x, f, y) == [author |-> a, x_mat |-> x, fy |-> f, yt |-> y]

\* The features of author a's current revision.
Fy(a) == <<a, 0>>

\* ------------------------------------------------------------ rebalance
Negatives(items) == SelectSeq(items, LAMBDA it : PyLt(it.yt, 2))
Positives(items) == SelectSeq(items, LAMBDA it : PyGt(it.yt, 2))

\* Variant: the larger class is not down-sampled.
SampledClasses_NoSampling(neg_items, pos_items) == {<<neg_items, pos_items>>}

\* The two classes after the larger one has been down-sampled.
SampledClasses(neg_items, pos_items) ==
    IF Len(neg_items) <= Len(pos_items)
    THEN {<<neg_items, p>> : p \in RandomSample(pos_items, Len(neg_items))}
    ELSE {<<n, pos_items>> : n \in RandomSample(neg_items, Len(pos_items))}

\* Every list _rebalance_data may return for items.
RebalanceData(items) ==
    UNION {ShuffleTimes({c[1] \o c[2]}, ShuffleRounds) :
             c \in SampledClasses(Negatives(items), Positives(items))}

\* ---------------------------------------------------------------- expand
empty_mat == << >>

\* Variant: the current revision's example is not appended.
ExpandEntry_RowsOnly(it) ==
    [i \in 1..Len(it.x_mat) |->
        Item(it.author, empty_mat, it.x_mat[i].feat, it.x_mat[i].last)]

\* The examples _expand_to_all appends for one author entry.
ExpandEntry(it) ==
    [i \in 1..Len(it.x_mat) |->
        Item(it.author, empty_mat, it.x_mat[i].feat, it.x_mat[i].last)]
    \o << Item(it.author, empty_mat, it.fy, Normalize(it.yt)) >>

RECURSIVE ExpandToAll(_)
ExpandToAll(items) ==
    IF items = << >> THEN << >>
    ELSE ExpandEntry(Head(items)) \o ExpandToAll(Tail(items))

\* ---------------------------------------------------------- numpy arrays
\* An array is its number of dimensions and its flat data.
Array1(data) == [ndim |-> 1, data |-> data]
EmptyArray == Array1(<< >>)
\* The outcome of an array operation that raises ValueError.
ValueError == [ndim |-> 0 - 1, data |-> << >>]

\* A fix_bit_val argument: a scalar (dim 0) or a list (dim 1) of bit values.
Scalar(b) == Some([dim |-> 0, bits |-> <<b>>])
Vector(bs) == Some([dim |-> 1, bits |-> bs])

\* np.array(fix_bit_val) and np.array([fix_bit_val]).
NpArray(fix) == [ndim |-> Val(fix).dim, data |-> Val(fix).bits]
NpArrayOfList(fix) == [ndim |-> Val(fix).dim + 1, data |-> Val(fix).bits]

\* np.concatenate((a, b)): both need the same, nonzero, number of dimensions.
NpConcatenate(a, b) ==
    IF a.ndim = 0 \/ b.ndim = 0 \/ a.ndim # b.ndim THEN ValueError
    ELSE [ndim |-> a.ndim, data |-> a.data \o b.data]

\* a[:k] on a one-dimensional array; k = None takes everything.
SliceEnd(k, len) == IF IsNone(k) \/ Val(k) > len THEN len ELSE Val(k)
SliceTo(a, k) == Array1(SubSeq(a.data, 1, SliceEnd(k, Len(a.data))))

\* np.zeros(shape) and np.resize(a, shape) for a one-dimensional shape.
NpZeros(n) == Array1([i \in 1..n |-> 0])
NpResize(a, n) ==
    IF Len(a.data) = 0 THEN NpZeros(n)
    ELSE Array1([i \in 1..n |-> a.data[((i - 1) % Len(a.data)) + 1]])

\* The array of fy, one component per feature.
FyArray(fy) == Array1([j \in 1..FyWidth |-> [of |-> "fy", at |-> j]])

\* The components of a fix_bit_val of n bits.
FixBits(n) == [j \in 1..n |-> [of |-> "fix_bit_val", at |-> j]]

\* ------------------------------------------------------- collaborators
\* lstm.initialize(Nf, M): a fresh LSTM.
LstmInit == [forwards |-> 0, backwards |-> 0]

\* Lines 102-105: the width of the DNN's input layer.
NnetWidth(k) == IF IsNone(k) THEN 12 + 12 ELSE Val(k) + 12

\* nnet.initialize([width, ...]): a fresh DNN.
NnetInit(width) == [width |-> width, forwards |-> 0, backwards |-> 0]

\* lstm.forward(x_mat): a vector of M components.
LstmForward(x_mat) == Array1([i \in 1..M |-> [of |-> "Y", at |-> i]])

\* nnet.backward_adadelta(dy): the gradient with respect to the input,
\* component i being named i (0 names a zero entry).
NnetBackward(nnet_input) == Array1([i \in 1..Len(nnet_input.data) |-> i])

\* ------------------------------------------- the training loop's decisions
\* Variant: `k > 0` alone, k = None not provided for.
TrainRunsLstm_PositiveOnly(k, fix_bit_val) ==
    PyGt(k, 0) /\ IsNone(fix_bit_val)

\* Line 125: run the LSTM only if its bits are required.
TrainRunsLstm(k, fix_bit_val) ==
    (PyGt(k, 0) \/ IsNone(k)) /\ IsNone(fix_bit_val)

\* Lines 131-132: the input of the predictor.
TrainNnetInput(k, fix_bit_val, Y, fy) ==
    IF IsNone(fix_bit_val) THEN NpConcatenate(SliceTo(Y, k), FyArray(fy))
    ELSE NpConcatenate(NpArray(fix_bit_val), FyArray(fy))

\* Lines 137-139: the target the loss is measured against.
TrainNormalizes(k, quality) == (PyGt(k, 0) \/ IsNone(k)) /\ quality
TrainTarget(k, quality, yt) ==
    IF TrainNormalizes(k, quality) THEN Normalize(yt) ELSE yt

\* Variant: `k >= 0` in place of `k > 0`.
TrainBackwardLstm_FromZero(k, fix_bit_val) ==
    IF IsNone(k) THEN TRUE ELSE Val(k) >= 0

\* Line 151: send the gradient back through the LSTM.
TrainBackwardLstm(k, fix_bit_val) == PyGt(k, 0) \/ IsNone(k)

\* Lines 154-156: the gradient handed to the LSTM.
BackEl(k, Y, bp_res) ==
    LET n == Len(Y.data)
        resized == NpResize(bp_res, n)
    IN  Array1([i \in 1..n |->
                  IF i <= SliceEnd(k, n) THEN resized.data[i] ELSE 0])

\* Lines 94 and 159-163.
DefaultLearningFactor == [value |-> "1.0", fy |-> << >>]
LearningFactor(fy) == [value |-> "np.square(np.average((fy[3], fy[4])))", fy |-> fy]

\* ----------------------------------------- the evaluation's decisions
\* Line 227.
TestRunsLstm(k, fix_bit_val) ==
    (PyGt(k, 0) \/ IsNone(k)) /\ IsNone(fix_bit_val)

\* Lines 233-234.
TestNnetInput(k, fix_bit_val, Y, fy) ==
    IF IsNone(fix_bit_val) THEN NpConcatenate(SliceTo(Y, k), FyArray(fy))
    ELSE NpConcatenate(NpArrayOfList(fix_bit_val), FyArray(fy))

\* Lines 239-241: `and` binds tighter than `or`.
TestNormalizes(k, quality) == PyGt(k, 0) \/ (IsNone(k) /\ quality)
TestTarget(k, quality, yt) ==
    IF TestNormalizes(k, quality) THEN Normalize(yt) ELSE yt

VARIABLES
    pc,              \* position in the called function
    args,            \* the arguments of the call
    items,           \* the list the call was given (dict.items())
    data_list,       \* the list the training loop shuffles and walks
    iteration,       \* iterations completed by the training loop
    iter_ctr,        \* the loop's print counter
    cnt,             \* items of the current pass already handled
    errors,          \* the pass's error collection
    y_pred,          \* evaluation: predictions
    y_true,          \* evaluation: targets
    label_weights,   \* evaluation: update sizes
    lstm,            \* state of the sequence encoder
    nnet,            \* state of the predictor
    trace,           \* collaborator calls made by the last loop body
    back_el,         \* the gradients handed to lstm.backward_adadelta by it
    learning_factor, \* learning factor last passed to the LSTM
    files,           \* artifacts written by the persistence steps
    ret              \* what the caller has received

vars == <<pc, args, items, data_list, iteration, iter_ctr, cnt, errors, y_pred,
          y_true, label_weights, lstm, nnet, trace, back_el, learning_factor,
          files, ret>>

\* ------------------------------------------------------------ the inputs
\* dict.items(): one entry per author, the authors being the positions.
Histories(a, labels, maxlen) ==
    UNION {{[i \in 1..h |-> Row(a, i, f[i])] : f \in [1..h -> labels]} :
           h \in 0..maxlen}

Entries(a, rowlabels, maxlen, labels) ==
    {Item(a, x, Fy(a), y) : x \in Histories(a, rowlabels, maxlen), y \in labels}

ItemLists(rowlabels, maxlen, labels) ==
    UNION {{s \in [1..n -> UNION {Entries(a, rowlabels, maxlen, labels) :
                                    a \in 1..n}] :
              \A i \in 1..n : s[i].author = i} :
           n \in 0..MaxItems}

\* The training loop shuffles its list before it reads it and authors are
\* interchangeable keys, so one training dict stands for all its
\* reorderings: the one whose entries are listed by kind.
KindOf(it) ==
    Len(it.x_mat) * 100 + (IF IsNone(it.yt) THEN 50 ELSE Val(it.yt) + 4)

ListedByKind(s) ==
    \A i \in 1..(Len(s) - 1) : KindOf(s[i]) <= KindOf(s[i + 1])

KValues == {None, Some(0), Some(1), Some(M)}

\* train_nn_using_k_lstm_bit(train_dict, k, N, quality, fix_bit_val, store,
\* picklefile, weighted_learning, balanced); fix_bit_val is a list of bits,
\* the only kind np.array(fix_bit_val) joins to fy.
\* It holds as many bits as the DNN's input layer leaves room for.
BitCalls ==
    {c \in [fn : {"train_nn_using_k_lstm_bit"}, k : KValues, N : 1..MaxN,
            quality : BOOLEAN,
            fix_bit_val : {None} \cup {Vector(FixBits(n)) : n \in {0, 1, M}},
            store : BOOLEAN, weighted_learning : BOOLEAN, balanced : BOOLEAN] :
       IF IsNone(c.fix_bit_val) THEN TRUE
       ELSE Len(Val(c.fix_bit_val).bits) + FyWidth = NnetWidth(c.k)}

\* train_nn_only(train_dict, N, store, picklefile, weighted_learning): the
\* loop runs with k = 0 and the defaults quality = True, fix_bit_val = None.
OnlyCalls ==
    [fn : {"train_nn_only"}, k : {Some(0)}, N : 1..MaxN, quality : {TRUE},
     fix_bit_val : {None}, store : BOOLEAN, weighted_learning : BOOLEAN,
     balanced : {TRUE}]

\* What the caller holds: nothing yet, the returned value, or an exception.
NoReturn == [kind |-> "running", value |-> None, exc |-> ""]
Returned(v) == [kind |-> "returned", value |-> Some(v), exc |-> ""]
Raised(e) == [kind |-> "raised", value |-> None, exc |-> e]

Idle ==
    /\ data_list = << >> /\ iteration = 0 /\ iter_ctr = 0 /\ cnt = 0
    /\ errors = << >> /\ y_pred = << >> /\ y_true = << >>
    /\ label_weights = << >> /\ lstm = LstmInit
    /\ nnet = NnetInit(NnetWidth(args.k))
    /\ trace = << >> /\ back_el = << >>
    /\ learning_factor = DefaultLearningFactor /\ files = {} /\ ret = NoReturn

Init ==
    /\ pc = "call"
    /\ \/ /\ args \in BitCalls
          /\ items \in {s \in ItemLists({Some(4)}, 1, RawLabels) :
                          ListedByKind(s)}
       \/ /\ args \in OnlyCalls
          /\ items \in {s \in ItemLists(NumLabels, 1, NumLabels) :
                          ListedByKind(s) /\ Len(ExpandToAll(s)) <= MaxItems}
    /\ Idle

\* ------------------------------------------------- the training entry points
\* train_nn_using_k_lstm_bit, lines 286-288.
PrepareBits ==
    /\ pc = "call" /\ args.fn = "train_nn_using_k_lstm_bit"
    /\ data_list' \in (IF args.balanced THEN RebalanceData(items) ELSE {items})
    /\ pc' = "train"
    /\ UNCHANGED <<args, items, iteration, iter_ctr, cnt, errors, y_pred, y_true,
                   label_weights, lstm, nnet, trace, back_el, learning_factor,
                   files, ret>>

\* train_nn_only, lines 382-385.
PrepareOnly ==
    /\ pc = "call" /\ args.fn = "train_nn_only"
    /\ data_list' \in RebalanceData(ExpandToAll(items))
    /\ pc' = "train"
    /\ UNCHANGED <<args, items, iteration, iter_ctr, cnt, errors, y_pred, y_true,
                   label_weights, lstm, nnet, trace, back_el, learning_factor,
                   files, ret>>

\* _train_nn_with_k_lstm_bits, lines 90-107: create the LSTM and the DNN.
TrainSetup ==
    /\ pc = "train"
    /\ lstm' = LstmInit /\ nnet' = NnetInit(NnetWidth(args.k))
    /\ learning_factor' = DefaultLearningFactor
    /\ iter_ctr' = args.N
    /\ iteration' = 0
    /\ pc' = "for_iteration"
    /\ UNCHANGED <<args, items, data_list, cnt, errors, y_pred, y_true,
                   label_weights, trace, back_el, files, ret>>

\* Lines 109-115: shuffle and start a pass.
BeginIteration ==
    /\ pc = "for_iteration" /\ iteration < args.N
    /\ data_list' \in Shuffles(data_list)
    /\ errors' = << >>
    /\ cnt' = 0
    /\ pc' = "for_item"
    /\ UNCHANGED <<args, items, iteration, iter_ctr, y_pred, y_true,
                   label_weights, lstm, nnet, trace, back_el, learning_factor,
                   files, ret>>

\* Lines 118-122: an item without target is ignored.
SkipItem ==
    /\ pc = "for_item" /\ cnt < Len(data_list)
    /\ Falsy(data_list[cnt + 1].yt)
    /\ cnt' = cnt + 1
    /\ trace' = << >> /\ back_el' = << >>
    /\ UNCHANGED <<pc, args, items, data_list, iteration, iter_ctr, errors,
                   y_pred, y_true, label_weights, lstm, nnet, learning_factor,
                   files, ret>>

\* Lines 124-165: forward through LSTM and DNN, then backward through both.
TrainItem ==
    /\ pc = "for_item" /\ cnt < Len(data_list)
    /\ ~Falsy(data_list[cnt + 1].yt)
    /\ LET it == data_list[cnt + 1]
           k == args.k
           fix == args.fix_bit_val
           forward == TrainRunsLstm(k, fix)
           Y == IF forward THEN LstmForward(it.x_mat) ELSE EmptyArray
           nnet_input == TrainNnetInput(k, fix, Y, it.fy)
           yt == TrainTarget(k, args.quality, it.yt)
           bp_res == NnetBackward(nnet_input)
           backward == TrainBackwardLstm(k, fix)
       IN  /\ errors' = Append(errors, [fy |-> it.fy, yt |-> yt])
           /\ nnet' = [nnet EXCEPT !.forwards = @ + 1, !.backwards = @ + 1]
           /\ lstm' = [lstm EXCEPT
                         !.forwards = @ + (IF forward THEN 1 ELSE 0),
                         !.backwards = @ + (IF backward THEN 1 ELSE 0)]
           /\ trace' = (IF forward THEN <<"lstm.forward">> ELSE << >>)
                       \o <<"nnet.forward", "nnet.backward_adadelta">>
                       \o (IF backward THEN <<"lstm.backward_adadelta">> ELSE << >>)
           /\ back_el' = (IF backward THEN <<BackEl(k, Y, bp_res).data>> ELSE << >>)
           /\ learning_factor' =
                  (IF backward /\ args.weighted_learning
                   THEN LearningFactor(it.fy) ELSE learning_factor)
    /\ cnt' = cnt + 1
    /\ UNCHANGED <<pc, args, items, data_list, iteration, iter_ctr, y_pred,
                   y_true, label_weights, files, ret>>

\* Lines 167-177: the pass is over; average and print the errors.
EndIteration ==
    /\ pc = "for_item" /\ cnt = Len(data_list)
    /\ iter_ctr' = (IF iter_ctr + 1 >= args.N \div 100 THEN 0 ELSE iter_ctr + 1)
    /\ iteration' = iteration + 1
    /\ pc' = "for_iteration"
    /\ UNCHANGED <<args, items, data_list, cnt, errors, y_pred, y_true,
                   label_weights, lstm, nnet, trace, back_el, learning_factor,
                   files, ret>>

\* Line 179 and lines 296-299 (392-396): back in the entry point.
TrainReturn ==
    /\ pc = "for_iteration" /\ iteration = args.N
    /\ pc' = (IF ~args.store THEN "return"
              ELSE IF args.fn = "train_nn_only" THEN "store_pickle"
              ELSE "store_dumps")
    /\ UNCHANGED <<args, items, data_list, iteration, iter_ctr, cnt, errors,
                   y_pred, y_true, label_weights, lstm, nnet, trace, back_el,
                   learning_factor, files, ret>>

\* The persistence steps of lines 303-314 (410-411), in order.
StoreSteps == <<"store_dumps", "store_lstm_json", "store_nn_json", "store_pickle">>
StoreFile(step) ==
    CASE step = "store_dumps" -> {}
      [] step = "store_lstm_json" -> {"lstm.json"}
      [] step = "store_nn_json" -> {"nn.json"}
      [] step = "store_pickle" -> {"temp_model.pkl"}
AfterStore(step) ==
    CASE step = "store_dumps" -> "store_lstm_json"
      [] step = "store_lstm_json" -> "store_nn_json"
      [] step = "store_nn_json" -> "store_pickle"
      [] step = "store_pickle" -> "return"

\* A persistence step succeeds.
StoreStep ==
    /\ pc \in Range(StoreSteps)
    /\ files' = files \cup StoreFile(pc)
    /\ pc' = AfterStore(pc)
    /\ UNCHANGED <<args, items, data_list, iteration, iter_ctr, cnt, errors,
                   y_pred, y_true, label_weights, lstm, nnet, trace, back_el,
                   learning_factor, ret>>

\* A persistence step fails: the exception leaves the entry point.  The
\* file it had opened may or may not exist afterwards.
StoreFails ==
    /\ pc \in Range(StoreSteps)
    /\ files' \in {files, files \cup StoreFile(pc)}
    /\ pc' = "raised"
    /\ ret' = Raised(IF pc = "store_dumps" THEN "Exception" ELSE "IOError")
    /\ UNCHANGED <<args, items, data_list, iteration, iter_ctr, cnt, errors,
                   y_pred, y_true, label_weights, lstm, nnet, trace, back_el,
                   learning_factor>>

\* Line 316 (413): return (lstm_out, nn_out).
Return ==
    /\ pc = "return"
    /\ ret' = Returned([lstm |-> lstm, nnet |-> nnet])
    /\ pc' = "done"
    /\ UNCHANGED <<args, items, data_list, iteration, iter_ctr, cnt, errors,
                   y_pred, y_true, label_weights, lstm, nnet, trace, back_el,
                   learning_factor, files>>

Next ==
    \/ PrepareBits \/ PrepareOnly \/ TrainSetup \/ BeginIteration
    \/ SkipItem \/ TrainItem \/ EndIteration \/ TrainReturn
    \/ StoreStep \/ StoreFails \/ Return

Spec == Init /\ [][Next]_vars

\* ------------------------------------------------------ _rebalance_data
\* The function called alone, on any list: items may repeat.
SampleItems ==
    {Item(a, empty_mat, Fy(a), y) : a \in 1..2, y \in {Some(0 - 4), Some(4)}}
    \cup {Item(1, empty_mat, Fy(1), y) : y \in {Some(2), None}}

DefaultArgs(fn) ==
    [fn |-> fn, k |-> None, N |-> 1, quality |-> TRUE, fix_bit_val |-> None,
     store |-> FALSE, weighted_learning |-> FALSE, balanced |-> FALSE]

InitRebalance ==
    /\ pc = "call"
    /\ args = DefaultArgs("_rebalance_data")
    /\ items \in UNION {[1..n -> SampleItems] : n \in 0..MaxSample}
    /\ Idle

\* Lines 349-364.
RebalanceCall ==
    /\ pc = "call" /\ args.fn = "_rebalance_data"
    /\ \E new_items \in RebalanceData(items) : ret' = Returned(new_items)
    /\ pc' = "done"
    /\ UNCHANGED <<args, items, data_list, iteration, iter_ctr, cnt, errors,
                   y_pred, y_true, label_weights, lstm, nnet, trace, back_el,
                   learning_factor, files>>

SpecRebalance == InitRebalance /\ [][RebalanceCall]_vars

\* -------------------------------------------------------- _expand_to_all
\* yt + 1.0 needs a number: the entries carry numeric labels.
InitExpand ==
    /\ pc = "call"
    /\ args = DefaultArgs("_expand_to_all")
    /\ items \in ItemLists({Some(0 - 4), Some(4)}, MaxHist, NumLabels)
    /\ Idle

\* Lines 326-335.
ExpandCall ==
    /\ pc = "call" /\ args.fn = "_expand_to_all"
    /\ ret' = Returned(ExpandToAll(items))
    /\ pc' = "done"
    /\ UNCHANGED <<args, items, data_list, iteration, iter_ctr, cnt, errors,
                   y_pred, y_true, label_weights, lstm, nnet, trace, back_el,
                   learning_factor, files>>

SpecExpand == InitExpand /\ [][ExpandCall]_vars

\* --------------------------------------------- _test_nn_with_k_lstm_bits
\* _test_nn_with_k_lstm_bits(test_data, lstm, nnet, k, quality, fix_bit_val);
\* fix_bit_val is one bit value, the only kind np.array([fix_bit_val]) joins
\* to fy.
TestCalls ==
    [fn : {"_test_nn_with_k_lstm_bits"}, k : KValues, N : {1},
     quality : BOOLEAN, fix_bit_val : {None, Scalar(FixBits(1)[1])},
     store : {FALSE}, weighted_learning : {FALSE}, balanced : {FALSE}]

\* The pair handed in was trained for the input this call builds.
InitTest ==
    /\ pc = "for_item"
    /\ args \in TestCalls
    /\ items \in ItemLists({Some(4)}, 1, RawLabels)
    /\ data_list = << >> /\ iteration = 0 /\ iter_ctr = 0 /\ cnt = 0
    /\ errors = << >> /\ y_pred = << >> /\ y_true = << >>
    /\ label_weights = << >> /\ lstm = LstmInit
    /\ nnet = NnetInit((IF IsNone(args.fix_bit_val) THEN SliceEnd(args.k, M)
                        ELSE 1) + FyWidth)
    /\ trace = << >> /\ back_el = << >>
    /\ learning_factor = DefaultLearningFactor /\ files = {} /\ ret = NoReturn

\* Lines 221-225.
TestSkip ==
    /\ pc = "for_item" /\ cnt < Len(items)
    /\ Falsy(items[cnt + 1].yt)
    /\ cnt' = cnt + 1
    /\ trace' = << >>
    /\ UNCHANGED <<pc, args, items, data_list, iteration, iter_ctr, errors,
                   y_pred, y_true, label_weights, lstm, nnet, back_el,
                   learning_factor, files, ret>>

\* Lines 226-254.
TestItem ==
    /\ pc = "for_item" /\ cnt < Len(items)
    /\ ~Falsy(items[cnt + 1].yt)
    /\ LET it == items[cnt + 1]
           k == args.k
           fix == args.fix_bit_val
           forward == TestRunsLstm(k, fix)
           Y == IF forward THEN LstmForward(it.x_mat) ELSE EmptyArray
           nnet_input == TestNnetInput(k, fix, Y, it.fy)
           yt == TestTarget(k, args.quality, it.yt)
       IN  /\ lstm' = [lstm EXCEPT !.forwards = @ + (IF forward THEN 1 ELSE 0)]
           /\ nnet' = [nnet EXCEPT !.forwards = @ + 1]
           /\ trace' = (IF forward THEN <<"lstm.forward">> ELSE << >>)
                       \o <<"nnet.forward">>
           /\ errors' = Append(errors, [fy |-> it.fy, yt |-> yt])
           /\ y_pred' = Append(y_pred, nnet_input)
           /\ y_true' = Append(y_true, yt)
           /\ label_weights' = Append(label_weights, it.fy)
    /\ cnt' = cnt + 1
    /\ UNCHANGED <<pc, args, items, data_list, iteration, iter_ctr, back_el,
                   learning_factor, files, ret>>

\* Lines 256-259.
TestReturn ==
    /\ pc = "for_item" /\ cnt = Len(items)
    /\ ret' = Returned(<<errors, y_pred, y_true, label_weights>>)
    /\ pc' = "done"
    /\ UNCHANGED <<args, items, data_list, iteration, iter_ctr, cnt, errors,
                   y_pred, y_true, label_weights, lstm, nnet, trace, back_el,
                   learning_factor, files>>

NextTest == TestSkip \/ TestItem \/ TestReturn

SpecTest == InitTest /\ [][NextTest]_vars

\* ================================================================ claims
\* Truthiness and counts, stated without the model's own operators.
Truthy(yt) == yt # << >> /\ yt # <<0>>

RECURSIVE TruthyCount(_)
TruthyCount(s) ==
    IF s = << >> THEN 0
    ELSE (IF Truthy(Head(s).yt) THEN 1 ELSE 0) + TruthyCount(Tail(s))

\* Items with a target handled so far by the training loop, all passes.
TrainedSoFar ==
    iteration * TruthyCount(data_list)
    + (IF pc = "for_item" THEN TruthyCount(SubSeq(data_list, 1, cnt)) ELSE 0)

InTraining == args.fn \in {"train_nn_using_k_lstm_bit", "train_nn_only"}

\* C1: training with fix_bit_val set makes no call of the LSTM's forward and
\* no call of its backward: the LSTM stays as initialized.
C1_FixBitNeverInvokesEncoder ==
    (InTraining /\ args.fix_bit_val # << >>) => lstm = LstmInit

\* C2: training with k = 0 calls neither lstm.forward nor
\* lstm.backward_adadelta, and calls nnet.backward_adadelta once for every
\* item with a target in every pass, so that the returned predictor differs
\* from the initial one whenever some item has a target.
C2_KZeroTrainsPredictorOnly ==
    (InTraining /\ args.k = <<0>>) =>
        /\ lstm.forwards = 0 /\ lstm.backwards = 0
        /\ nnet.backwards = TrainedSoFar
        /\ (pc = "for_item" /\ cnt > 0) =>
              (trace = (IF Truthy(data_list[cnt].yt)
                        THEN <<"nnet.forward", "nnet.backward_adadelta">>
                        ELSE << >>))
        /\ (ret.kind = "returned" /\ TruthyCount(data_list) > 0) =>
              /\ nnet.backwards = args.N * TruthyCount(data_list)
              /\ ret.value[1].nnet.backwards > 0

C2_Witness ==
    /\ args.fn = "train_nn_only" /\ ret.kind = "returned"
    /\ Len(data_list) = 2 /\ nnet.backwards = 4 /\ lstm.backwards = 0

\* The LSTM's bits are in use: k > 0 or k is None, and no fix_bit_val.
EncoderMode ==
    /\ InTraining
    /\ (IF args.k = << >> THEN TRUE ELSE args.k[1] > 0)
    /\ args.fix_bit_val = << >>

FourCalls ==
    <<"lstm.forward", "nnet.forward", "nnet.backward_adadelta",
      "lstm.backward_adadelta">>

\* C9: in encoder mode every item with a target makes, in every pass, one
\* lstm.forward, one nnet.forward, one nnet.backward_adadelta and one
\* lstm.backward_adadelta, in that order, and adds one loss to the pass's
\* errors; an item without target makes no call and adds no loss; the
\* errors returned hold one entry per item with a target.
C9_EncoderModeCallsPerItem ==
    EncoderMode =>
        /\ lstm.forwards = TrainedSoFar /\ nnet.forwards = TrainedSoFar
        /\ nnet.backwards = TrainedSoFar /\ lstm.backwards = TrainedSoFar
        /\ pc = "for_item" =>
              LET done == SelectSeq(SubSeq(data_list, 1, cnt),
                                    LAMBDA it : Truthy(it.yt))
              IN  /\ Len(errors) = Len(done)
                  /\ \A j \in 1..Len(done) : errors[j].fy = done[j].fy
        /\ (pc = "for_item" /\ cnt > 0) =>
              (trace = (IF Truthy(data_list[cnt].yt) THEN FourCalls ELSE << >>))
        /\ (pc \notin {"call", "train", "for_item"} /\ iteration = args.N) =>
              Len(errors) = TruthyCount(data_list)

C9_Witness ==
    /\ EncoderMode /\ pc = "for_item" /\ iteration = 1 /\ cnt = 2
    /\ TruthyCount(data_list) = 1 /\ trace = << >>
    /\ lstm.backwards = 2 /\ Len(errors) = 1

\* C10: the gradient handed to lstm.backward_adadelta has the width M of the
\* LSTM's output; its first k positions are the first k components of the
\* gradient nnet.backward_adadelta returned and the others are zero (with
\* k = None all M positions are the predictor's).
C10_EncoderGradientShape ==
    (InTraining /\ back_el # << >>) =>
        LET g == back_el[1]
            kk == IF args.k = << >> THEN M ELSE args.k[1]
        IN  /\ Len(g) = M
            /\ \A i \in 1..M : g[i] = (IF i <= kk THEN i ELSE 0)

\* The same, for the calls made while the LSTM's forward has run.
C10_InEncoderMode == EncoderMode => C10_EncoderGradientShape

\* C6: with store = True no persistence step starts before all N passes are
\* over, and when a persistence step fails the caller still has the trained
\* (lstm, nnet) pair.
C6_FailedPersistenceKeepsTrainedPair ==
    (InTraining /\ args.store) =>
        /\ (files # {} \/ pc \in Range(StoreSteps) \/ ret.kind = "raised") =>
              (iteration = args.N /\ pc # "for_item")
        /\ ret.kind = "raised" => ret.value = <<[lstm |-> lstm, nnet |-> nnet]>>

\* The part of C6 about the order: persistence follows training.
C6_PersistenceAfterTraining ==
    (InTraining /\ (files # {} \/ pc \in Range(StoreSteps) \/ ret.kind = "raised")) =>
        (args.store /\ iteration = args.N /\ pc # "for_item")

\* ------------------------------------------------------------- evaluation
InTest == args.fn = "_test_nn_with_k_lstm_bits"

\* C5: for every evaluated item the evaluation runs the LSTM when training
\* would, feeds the predictor the input training would, and measures against
\* the target training would.  Each function is given fix_bit_val in the form
\* it joins to fy: the bit for the evaluation, the list of it for training.
C5_TestMirrorsTraining ==
    InTest =>
        \A j \in 1..Len(y_true) :
            LET it == SelectSeq(items, LAMBDA x : Truthy(x.yt))[j]
                k == args.k
                fix == args.fix_bit_val
                fixlist == IF fix = << >> THEN fix ELSE Vector(fix[1].bits)
                Y == IF TrainRunsLstm(k, fixlist) THEN LstmForward(it.x_mat)
                     ELSE EmptyArray
            IN  /\ TestRunsLstm(k, fix) = TrainRunsLstm(k, fixlist)
                /\ y_pred[j] = TrainNnetInput(k, fixlist, Y, it.fy)
                /\ y_true[j] = TrainTarget(k, args.quality, it.yt)

\* C8: the evaluation calls no backward; its four collections grow together,
\* one entry per item with a target, and are what it returns; on an empty
\* list it returns four empty collections.
C8_EvaluationForwardOnly ==
    InTest =>
        /\ lstm.backwards = 0 /\ nnet.backwards = 0
        /\ Len(errors) = TruthyCount(SubSeq(items, 1, cnt))
        /\ Len(y_pred) = Len(errors) /\ Len(y_true) = Len(errors)
        /\ Len(label_weights) = Len(errors)
        /\ pc = "done" =>
              /\ ret.kind = "returned"
              /\ \A c \in 1..4 : Len(ret.value[1][c]) = TruthyCount(items)
              /\ ret.value[1] = <<errors, y_pred, y_true, label_weights>>

C8_Witness ==
    /\ InTest /\ pc = "done" /\ Len(items) = 2 /\ Len(ret.value[1][3]) = 1

\* -------------------------------------------------------------- rebalance
BelowHalf(yt) == IF yt = << >> THEN TRUE ELSE yt[1] < 2
AboveHalf(yt) == IF yt = << >> THEN FALSE ELSE yt[1] > 2

Below(s) == Cardinality({i \in 1..Len(s) : BelowHalf(s[i].yt)})
Above(s) == Cardinality({i \in 1..Len(s) : AboveHalf(s[i].yt)})

Rebalanced == args.fn = "_rebalance_data" /\ pc = "done"

\* C3: the list _rebalance_data returns holds as many items with label < 0.5
\* as with label > 0.5, and is empty when the input lacks one of the classes.
C3_RebalanceBalanced ==
    Rebalanced =>
        LET out == ret.value[1]
        IN  /\ Below(out) = Above(out)
            /\ Len(out) = Below(out) + Above(out)
            /\ (Below(items) = 0 \/ Above(items) = 0) => out = << >>

C3_Witness ==
    /\ Rebalanced /\ Len(items) = 4 /\ Below(items) = 3 /\ Above(items) = 1
    /\ Len(ret.value[1]) = 2

\* C4: every item returned is an item of the input, returned no more often
\* than the input holds it; the result is no longer than the input; the
\* smaller class is returned in full.
C4_RebalanceSubset ==
    Rebalanced =>
        LET out == ret.value[1]
            kept == IF Below(items) <= Above(items)
                    THEN {x \in Range(items) : BelowHalf(x.yt)}
                    ELSE {x \in Range(items) : AboveHalf(x.yt)}
        IN  /\ \A x \in Range(out) : Count(out, x) <= Count(items, x)
            /\ Len(out) <= Len(items)
            /\ (Below(items) > 0 /\ Above(items) > 0) =>
                  \A x \in kept : Count(out, x) = Count(items, x)

C4_Witness ==
    /\ Rebalanced /\ Len(items) = 4 /\ Below(items) = 2 /\ Above(items) = 2
    /\ Cardinality(Range(items)) = 2 /\ Len(ret.value[1]) = 4

\* ----------------------------------------------------------------- expand
Expanded == args.fn = "_expand_to_all" /\ pc = "done"

RECURSIVE Offset(_, _)
\* The number of examples due to the entries before entry i.
Offset(s, i) == IF i = 1 THEN 0 ELSE Offset(s, i - 1) + Len(s[i - 1].x_mat) + 1

Processed(s) == SelectSeq(s, LAMBDA it : Truthy(it.yt))

\* C11: after rebalancing (train_nn_using_k_lstm_bit with balanced = True,
\* train_nn_only always) the items a pass of the training loop handles hold
\* as many labels < 0.5 as labels > 0.5.
C11_ProcessedItemsBalanced ==
    (InTraining /\ (args.fn = "train_nn_only" \/ args.balanced)
       /\ pc = "for_item" /\ cnt = Len(data_list)) =>
        /\ Below(Processed(data_list)) = Above(Processed(data_list))
        /\ Len(errors) = Len(Processed(data_list))
====
